---- MODULE Spec2Model ----
(***************************************************************************)
(* Model of obst_completo.py: the entry point main() (normalisation,       *)
(* validation, the OBST dynamic programme, the report and the three        *)
(* traversals) run on a bounded family of inputs and on the built-in       *)
(* example.                                                                *)
(*                                                                         *)
(* Numbers.  The script computes with floats.  The inputs are decimal      *)
(* literals in hundredths and main() rounds the rescaled values to 10      *)
(* decimals, so every value the dynamic programme adds or compares is a    *)
(* multiple of 1e-10.  A number is modelled exactly as a pair <<hi, lo>>   *)
(* worth hi * BASE + lo units of 1e-10 (0 <= lo < BASE); the binary        *)
(* representation error of a float (about 1e-16 relative) is not modelled. *)
(***************************************************************************)
EXTENDS Integers, Sequences, FiniteSets

\* ---------------------------------------------------------------- bounds
MaxN == 3
MaxP == 2
MaxTotal == 6
Quantum == 25

\* ------------------------------------------------------------ arithmetic
BASE == 100000
SumTol == 10000

Norm2(h, l) == <<h + (l \div BASE), l % BASE>>

Zero == <<0, 0>>

One == <<BASE, 0>>

Add(a, b) == Norm2(a[1] + b[1], a[2] + b[2])

Neg(a) == Norm2(0 - a[1], 0 - a[2])

Sub(a, b) == Add(a, Neg(b))

Less(a, b) == a[1] < b[1] \/ (a[1] = b[1] /\ a[2] < b[2])

IsNeg(a) == a[1] < 0

AbsNum(a) == IF IsNeg(a) THEN Neg(a) ELSE a

AbsInt(x) == IF x < 0 THEN 0 - x ELSE x

\* a literal of x hundredths, as the float the script reads
Lit(x) == <<x * (BASE \div 100), 0>>

LitSeq(s) == [k \in 1..Len(s) |-> Lit(s[k])]

\* round(x / t, 10) for integers x >= 0, t > 0: long division, half to even
RoundDiv(x, t) ==
    LET a  == x * BASE
        h  == a \div t
        r1 == a % t
        b  == r1 * BASE
        l  == b \div t
        r2 == b % t
        up == (2 * r2 > t) \/ (2 * r2 = t /\ l % 2 = 1)
    IN  Norm2(h, l + (IF up THEN 1 ELSE 0))

\* round(x * (1.0 / t), 10) for integers x and t # 0 (hundredths)
ScaleRound(x, t) ==
    IF x # 0 /\ ((x < 0) # (t < 0))
    THEN Neg(RoundDiv(AbsInt(x), AbsInt(t)))
    ELSE RoundDiv(AbsInt(x), AbsInt(t))

RECURSIVE SumInt(_)
SumInt(s) == IF s = <<>> THEN 0 ELSE Head(s) + SumInt(Tail(s))

RECURSIVE SumNum(_)
SumNum(s) == IF s = <<>> THEN Zero ELSE Add(Head(s), SumNum(Tail(s)))

\* ------------------------------------------------------- optimal_bst (DP)
\* [[x]*(n+2) for _ in range(n+2)]
NewTable(n, x) == [a \in 0..(n + 1) |-> [b \in 0..(n + 1) |-> x]]

\* for i in range(1, n+2): t[i][i-1] = q[i-1]
BaseCases(t, q, n) ==
    [a \in 0..(n + 1) |-> [b \in 0..(n + 1) |->
        IF a >= 1 /\ b = a - 1 THEN q[a] ELSE t[a][b]]]

\* mutants of the weight recurrence: the gap after key j forgotten; the gap
\* before key j added instead of the gap after it
WeightExtend_NoGap(w, p, q, i, j) == Add(w[i][j - 1], p[j])

WeightExtend_GapBefore(w, p, q, i, j) == Add(Add(w[i][j - 1], p[j]), q[j])

\* w[i][j-1] + p[j-1] + q[j]   (0-based lists: p[j-1] is key j, q[j] the gap after it)
WeightExtend(w, p, q, i, j) == Add(Add(w[i][j - 1], p[j]), q[j + 1])

\* mutant of the candidate cost: the interval's weight left out
CandidateCost_NoWeight(e, wij, i, j, r) == Add(e[i][r - 1], e[r + 1][j])

\* custo = e[i][r-1] + e[r+1][j] + w[i][j]
CandidateCost(e, wij, i, j, r) == Add(Add(e[i][r - 1], e[r + 1][j]), wij)

\* mutant of the comparison: <= in place of <
Better_OrEqual(custo, mr, mc) == mr = 0 \/ ~Less(mc, custo)

\* if custo < melhor_custo, with melhor_custo = inf while melhor_r is None (mr = 0)
Better(custo, mr, mc) == mr = 0 \/ Less(custo, mc)

\* for r in range(i, j+1): ... ; yields <<melhor_r, melhor_custo>>
RECURSIVE ScanRoots(_, _, _, _, _, _, _)
ScanRoots(e, wij, i, j, r, mr, mc) ==
    IF r > j THEN <<mr, mc>>
    ELSE LET custo == CandidateCost(e, wij, i, j, r)
         IN  IF Better(custo, mr, mc)
             THEN ScanRoots(e, wij, i, j, r + 1, r, custo)
             ELSE ScanRoots(e, wij, i, j, r + 1, mr, mc)

\* the body of the loop over i for one interval [i, j]; the float("inf")
\* stored in e[i][j] first is overwritten before the body ends and is never read
FillInterval(T, p, q, i, j) ==
    LET wij  == WeightExtend(T.w, p, q, i, j)
        best == ScanRoots(T.e, wij, i, j, i, 0, Zero)
    IN  [e    |-> [T.e EXCEPT ![i][j] = best[2]],
         w    |-> [T.w EXCEPT ![i][j] = wij],
         root |-> [T.root EXCEPT ![i][j] = best[1]]]

\* mutant of the loop headers: the loop over i stops after its first start
NextInterval_FirstStartOnly(n, L, i) == <<L + 1, 1>>

\* the loop headers: for L in range(1, n+1): for i in range(1, n-L+2)
NextInterval(n, L, i) == IF i + 1 <= n - L + 1 THEN <<L, i + 1>> ELSE <<L + 1, 1>>

RECURSIVE FillFrom(_, _, _, _, _, _)
FillFrom(T, p, q, n, L, i) ==
    IF L > n THEN T
    ELSE LET nx == NextInterval(n, L, i)
         IN  FillFrom(FillInterval(T, p, q, i, i + L - 1), p, q, n, nx[1], nx[2])

\* the three tables optimal_bst returns for n = len(p) = len(keys)
optimal_bst(p, q) ==
    LET n == Len(p)
        T0 == [e    |-> BaseCases(NewTable(n, Zero), q, n),
               w    |-> BaseCases(NewTable(n, Zero), q, n),
               root |-> NewTable(n, 0)]
    IN  FillFrom(T0, p, q, n, 1, 1)

\* ------------------------------------------------------------ traversals
RECURSIVE preorder_from_root(_, _, _, _)
preorder_from_root(rt, ks, i, j) ==
    IF j < i THEN <<>>
    ELSE LET r == rt[i][j]
         IN  <<ks[r]>> \o preorder_from_root(rt, ks, i, r - 1)
                       \o preorder_from_root(rt, ks, r + 1, j)

\* mutant of the in-order traversal: the root emitted before the left subtree
RECURSIVE inorder_RootFirst(_, _, _, _)
inorder_RootFirst(rt, ks, i, j) ==
    IF j < i THEN <<>>
    ELSE LET r == rt[i][j]
         IN  <<ks[r]>> \o inorder_RootFirst(rt, ks, i, r - 1)
                       \o inorder_RootFirst(rt, ks, r + 1, j)

RECURSIVE inorder_from_root(_, _, _, _)
inorder_from_root(rt, ks, i, j) ==
    IF j < i THEN <<>>
    ELSE LET r == rt[i][j]
         IN  inorder_from_root(rt, ks, i, r - 1) \o <<ks[r]>>
                       \o inorder_from_root(rt, ks, r + 1, j)

RECURSIVE postorder_from_root(_, _, _, _)
postorder_from_root(rt, ks, i, j) ==
    IF j < i THEN <<>>
    ELSE LET r == rt[i][j]
         IN  postorder_from_root(rt, ks, i, r - 1)
                       \o postorder_from_root(rt, ks, r + 1, j) \o <<ks[r]>>

\* ------------------------------------------------------------ validation
\* mutant of the validation: the sign check left out
validate_NoSignCheck(p, q) ==
    IF Len(q) # Len(p) + 1 THEN "q_len"
    ELSE IF Less(<<0, SumTol>>, AbsNum(Sub(Add(SumNum(p), SumNum(q)), One)))
         THEN "sum"
    ELSE ""

\* the message validate_probabilities raises, "" when it returns
validate_probabilities(p, q) ==
    IF Len(q) # Len(p) + 1 THEN "q_len"
    ELSE IF \E k \in 1..Len(p) : IsNeg(p[k]) THEN "negative"
    ELSE IF \E k \in 1..Len(q) : IsNeg(q[k]) THEN "negative"
    ELSE IF Less(<<0, SumTol>>, AbsNum(Sub(Add(SumNum(p), SumNum(q)), One)))
         THEN "sum"
    ELSE ""

\* ---------------------------------------------------------------- inputs
Names == <<"Ana", "Bruno", "Carla", "Diego", "Eva">>

ExampleKeys == <<"Ana", "Bruno", "Carla", "Diego">>
ExampleP == <<35, 25, 25, 15>>
ExampleQ == <<2, 2, 2, 2, 2>>

Example == [keys |-> ExampleKeys, p |-> ExampleP, q |-> ExampleQ]

Defects == {"none", "q_short", "keys_short", "neg_p", "neg_q"}

MkInput(n, kp, kq, d) ==
    [keys |-> SubSeq(Names, 1, IF d = "keys_short" THEN n - 1 ELSE n),
     p    |-> [k \in 1..n |-> IF d = "neg_p" /\ k = 1 THEN 0 - Quantum ELSE Quantum * kp[k]],
     q    |-> [k \in 1..(IF d = "q_short" THEN n ELSE n + 1) |->
                 IF d = "neg_q" /\ k = 1 THEN 0 - Quantum ELSE Quantum * kq[k]]]

\* at most MaxN keys, entries of 0..MaxP quanta, at most MaxTotal quanta in all
Budgeted(kp, kq) == SumInt(kp) + SumInt(kq) <= MaxTotal

DefectsFor(n) == {d \in Defects : d \in {"keys_short", "neg_p"} => n >= 1}

\* ----------------------------------------------------------------- state
VARIABLES pc, keys, p0, q0, p, q, e, w, root, L, i, filled,
          err, stderr, exitcode, cost_dp, roots_out, pre, ino, post

vars == <<pc, keys, p0, q0, p, q, e, w, root, L, i, filled,
          err, stderr, exitcode, cost_dp, roots_out, pre, ino, post>>

tables == <<e, w, root, filled>>
outputs == <<stderr, exitcode, cost_dp, roots_out, pre, ino, post>>
NoTable == <<>>

\* the state main starts in when keys, p and q are the given lists
Start(inp) ==
    /\ keys = inp.keys
    /\ p0 = inp.p
    /\ q0 = inp.q
    /\ p = LitSeq(inp.p)
    /\ q = LitSeq(inp.q)

Init ==
    /\ \/ Start(Example)
       \/ \E n \in 0..MaxN :
             \E kp \in [1..n -> 0..MaxP], kq \in [1..(n + 1) -> 0..MaxP] :
                /\ Budgeted(kp, kq)
                /\ \E d \in DefectsFor(n) : Start(MkInput(n, kp, kq, d))
    /\ pc = "normalize"
    /\ e = NoTable /\ w = NoTable /\ root = NoTable
    /\ L = 0 /\ i = 0
    /\ filled = {}
    /\ err = "" /\ stderr = "" /\ exitcode = -1
    /\ cost_dp = Zero /\ roots_out = <<>>
    /\ pre = <<>> /\ ino = <<>> /\ post = <<>>

\* main, lines 117-122: rescale to total 1.0 unless the total already is 1.0
Normalize ==
    /\ pc = "normalize"
    /\ LET total == SumInt(p0) + SumInt(q0)
       IN  IF total = 100
           THEN /\ pc' = "validate"
                /\ UNCHANGED <<p, q, err>>
           ELSE IF total = 0
           THEN /\ pc' = "raised"
                /\ err' = "ZeroDivisionError"
                /\ UNCHANGED <<p, q>>
           ELSE /\ p' = [k \in 1..Len(p0) |-> ScaleRound(p0[k], total)]
                /\ q' = [k \in 1..Len(q0) |-> ScaleRound(q0[k], total)]
                /\ pc' = "validate"
                /\ UNCHANGED err
    /\ UNCHANGED <<keys, p0, q0, L, i, tables, outputs>>

\* main, line 125
Validate ==
    /\ pc = "validate"
    /\ err' = validate_probabilities(p, q)
    /\ pc' = IF err' = "" THEN "optimal_bst" ELSE "raised"
    /\ UNCHANGED <<keys, p0, q0, p, q, L, i, tables, outputs>>

\* optimal_bst, lines 39-47: the length check, then the three tables
EnterOptimalBst ==
    /\ pc = "optimal_bst"
    /\ IF Len(keys) # Len(p)
       THEN /\ err' = "keys_len"
            /\ pc' = "raised"
            /\ UNCHANGED <<e, w, root>>
       ELSE /\ e' = NewTable(Len(p), Zero)
            /\ w' = NewTable(Len(p), Zero)
            /\ root' = NewTable(Len(p), 0)
            /\ pc' = "base"
            /\ UNCHANGED err
    /\ UNCHANGED <<keys, p0, q0, p, q, L, i, filled, outputs>>

\* optimal_bst, lines 52-54
InitBaseCases ==
    /\ pc = "base"
    /\ e' = BaseCases(e, q, Len(p))
    /\ w' = BaseCases(w, q, Len(p))
    /\ filled' = {<<a, a - 1>> : a \in 1..(Len(p) + 1)}
    /\ L' = 1 /\ i' = 1
    /\ pc' = IF Len(p) >= 1 THEN "fill" ELSE "report"
    /\ UNCHANGED <<keys, p0, q0, p, q, root, err, outputs>>

\* optimal_bst, lines 55-77: one interval [i, i+L-1]
FillStep ==
    /\ pc = "fill"
    /\ LET j  == i + L - 1
           T  == FillInterval([e |-> e, w |-> w, root |-> root], p, q, i, j)
           nx == NextInterval(Len(p), L, i)
       IN  /\ e' = T.e /\ w' = T.w /\ root' = T.root
           /\ filled' = filled \cup {<<i, j>>}
           /\ L' = nx[1] /\ i' = nx[2]
           /\ pc' = IF nx[1] > Len(p) THEN "report" ELSE "fill"
    /\ UNCHANGED <<keys, p0, q0, p, q, err, outputs>>

\* main, lines 128-141: the cost and the root chosen for every interval
IntervalsInOrder(n) ==
    LET RECURSIVE Go(_, _)
        Go(l, a) == IF l > n THEN <<>>
                    ELSE <<<<a, a + l - 1>>>> \o
                         Go(NextInterval(n, l, a)[1], NextInterval(n, l, a)[2])
    IN  Go(1, 1)

Report ==
    /\ pc = "report"
    /\ cost_dp' = e[1][Len(keys)]
    /\ roots_out' = [k \in 1..Len(IntervalsInOrder(Len(keys))) |->
                       LET iv == IntervalsInOrder(Len(keys))[k]
                       IN  <<iv[1], iv[2], keys[root[iv[1]][iv[2]]]>>]
    /\ pc' = "pre"
    /\ UNCHANGED <<keys, p0, q0, p, q, L, i, tables, err, stderr, exitcode, pre, ino, post>>

\* main, lines 144-146
Preorder ==
    /\ pc = "pre"
    /\ pre' = preorder_from_root(root, keys, 1, Len(keys))
    /\ pc' = "ino"
    /\ UNCHANGED <<keys, p0, q0, p, q, L, i, tables, err, stderr, exitcode, cost_dp, roots_out, ino, post>>

Inorder ==
    /\ pc = "ino"
    /\ ino' = inorder_from_root(root, keys, 1, Len(keys))
    /\ pc' = "post"
    /\ UNCHANGED <<keys, p0, q0, p, q, L, i, tables, err, stderr, exitcode, cost_dp, roots_out, pre, post>>

Postorder ==
    /\ pc = "post"
    /\ post' = postorder_from_root(root, keys, 1, Len(keys))
    /\ pc' = "end"
    /\ UNCHANGED <<keys, p0, q0, p, q, L, i, tables, err, stderr, exitcode, cost_dp, roots_out, pre, ino>>

\* main returns, lines 148-157
Finish ==
    /\ pc = "end"
    /\ exitcode' = 0
    /\ pc' = "exit"
    /\ UNCHANGED <<keys, p0, q0, p, q, L, i, tables, err, stderr, cost_dp, roots_out, pre, ino, post>>

\* lines 158-160: except Exception: print to sys.stderr, sys.exit(1)
HandleException ==
    /\ pc = "raised"
    /\ stderr' = err
    /\ exitcode' = 1
    /\ pc' = "exit"
    /\ UNCHANGED <<keys, p0, q0, p, q, L, i, tables, err, cost_dp, roots_out, pre, ino, post>>

Next ==
    \/ Normalize
    \/ Validate
    \/ EnterOptimalBst
    \/ InitBaseCases
    \/ FillStep
    \/ Report
    \/ Preorder
    \/ Inorder
    \/ Postorder
    \/ Finish
    \/ HandleException

Spec == Init /\ [][Next]_vars

\* ===================================================================
\* Properties
\* ===================================================================
NonEmptyIntervals(n) == {c \in (1..n) \X (1..n) : c[1] <= c[2]}

TablesBuilt == pc \in {"report", "pre", "ino", "post", "end"} \/ (pc = "exit" /\ err = "")

\* ---- explicit trees: <<>> is a gap leaf, <<r, left, right>> a key node ----
RECURSIVE Trees(_, _)
Trees(a, b) ==
    IF b < a THEN {<<>>}
    ELSE UNION {{<<r, lt, rt>> : lt \in Trees(a, r - 1), rt \in Trees(r + 1, b)} :
                r \in a..b}

MulSmall(x, k) == Norm2(x[1] * k, x[2] * k)

\* sum of p[k]*(depth(k)+1) over the keys and q[g]*(depth(g)+1) over the gap
\* leaves of tree t, which spans the keys a..b and whose root sits at depth d
RECURSIVE TreeCost(_, _, _, _, _, _)
TreeCost(t, pp, qq, a, b, d) ==
    IF t = <<>> THEN MulSmall(qq[a], d + 1)
    ELSE Add(MulSmall(pp[t[1]], d + 1),
             Add(TreeCost(t[2], pp, qq, a, t[1] - 1, d + 1),
                 TreeCost(t[3], pp, qq, t[1] + 1, b, d + 1)))

MinNum(S) == CHOOSE c \in S : \A d \in S : ~Less(d, c)

MinTreeCost(pp, qq, a, b) == MinNum({TreeCost(t, pp, qq, a, b, 0) : t \in Trees(a, b)})

\* the tree the root table describes for the keys a..b
RECURSIVE RootTree(_, _, _)
RootTree(rt, a, b) ==
    IF b < a THEN <<>>
    ELSE <<rt[a][b], RootTree(rt, a, rt[a][b] - 1), RootTree(rt, rt[a][b] + 1, b)>>

\* C1: once the tables are built from non-negative p and q, e[i][j] is the
\* minimum over all binary search tree shapes on the keys i..j of the expected
\* cost (keys and gap leaves weighted by depth + 1), and the tree the root table
\* describes has exactly that cost; in particular for [1, n].
C1_CostIsMinimum ==
    pc = "report" =>
        \A c \in NonEmptyIntervals(Len(p)) :
            /\ e[c[1]][c[2]] = MinTreeCost(p, q, c[1], c[2])
            /\ e[c[1]][c[2]] = TreeCost(RootTree(root, c[1], c[2]), p, q, c[1], c[2], 0)

\* a run with three keys whose optimal tree is not the left-leaning chain
C1_Witness ==
    /\ pc = "report"
    /\ Len(p) = 3
    /\ root[1][3] = 2
    /\ e[1][3] = MinTreeCost(p, q, 1, 3)
    /\ Less(e[1][3], TreeCost(<<1, <<>>, <<2, <<>>, <<3, <<>>, <<>>>>>>>>, p, q, 1, 3, 0))

\* ---- the root table of an explicit tree: root[a][b] for every interval the
\* tree splits, 0 (never read by a traversal) elsewhere ----
RECURSIVE TreeRoots(_, _, _)
TreeRoots(t, a, b) ==
    IF t = <<>> THEN {}
    ELSE {<<a, b, t[1]>>} \cup TreeRoots(t[2], a, t[1] - 1) \cup TreeRoots(t[3], t[1] + 1, b)

TableOfTree(t, n) ==
    LET rs == TreeRoots(t, 1, n)
    IN  [a \in 0..(n + 1) |-> [b \in 0..(n + 1) |->
            IF \E x \in rs : x[1] = a /\ x[2] = b
            THEN (CHOOSE x \in rs : x[1] = a /\ x[2] = b)[3]
            ELSE 0]]

\* C2: the in-order traversal main derives from the root table equals keys
\* exactly, and so does the in-order traversal of the root table of every
\* other tree shape on the same keys.
C2_InorderRoundTrip ==
    /\ (pc \in {"post", "end"} \/ (pc = "exit" /\ err = "")) => ino = keys
    /\ pc = "ino" =>
          \A t \in Trees(1, Len(keys)) :
              inorder_from_root(TableOfTree(t, Len(keys)), keys, 1, Len(keys)) = keys

C2_Witness ==
    /\ pc = "post"
    /\ Len(keys) = 3
    /\ ino = keys
    /\ pre # keys

\* C3: root[i][j] is the smallest r in i..j whose candidate cost
\* e[i][r-1] + e[r+1][j] + w[i][j] is the minimum over i..j.
C3_LeftmostMinimum ==
    TablesBuilt =>
        \A c \in NonEmptyIntervals(Len(p)) :
            LET cost(r) == CandidateCost(e, w[c[1]][c[2]], c[1], c[2], r)
                best == {r \in c[1]..c[2] : \A s \in c[1]..c[2] : ~Less(cost(s), cost(r))}
            IN  /\ root[c[1]][c[2]] \in best
                /\ \A r \in best : root[c[1]][c[2]] <= r

\* p = [0.5, 0.5], q = [0, 0, 0]: both roots cost the same and root[1][2] = 1
C3_Witness ==
    /\ pc = "report"
    /\ p0 = <<50, 50>> /\ q0 = <<0, 0, 0>>
    /\ CandidateCost(e, w[1][2], 1, 2, 1) = CandidateCost(e, w[1][2], 1, 2, 2)
    /\ root[1][2] = 1

IsExample == keys = ExampleKeys /\ p0 = ExampleP /\ q0 = ExampleQ

\* C4 (as amended): for the built-in example the overall root is root[1][4] = 2,
\* the key "Bruno", both in the run of main and on the literal p and q.
C4_ExampleRootIsBruno ==
    (IsExample /\ TablesBuilt) =>
        /\ root[1][4] = 2
        /\ keys[root[1][4]] = "Bruno"
        /\ optimal_bst(LitSeq(p0), LitSeq(q0)).root[1][4] = 2

C4_Witness ==
    /\ IsExample
    /\ pc = "pre"
    /\ root[1][4] = 2
    /\ roots_out[Len(roots_out)] = <<1, 4, "Bruno">>

\* C4 as stated: root[1][4] = 1, "Ana" is the overall root of the example.
C4_ExampleRootIsAna ==
    (IsExample /\ TablesBuilt) => (root[1][4] = 1 /\ keys[root[1][4]] = "Ana")

\* C5 (as amended): the example's inputs sum to 1.10, so main rescales them; the
\* cost main reports is e[1][4] = 2.0363636369, and the recurrence on the literal
\* inputs gives 2.24 (224 hundredths).
C5_ExampleCost ==
    IsExample =>
        /\ SumInt(p0) + SumInt(q0) = 110
        /\ pc \in {"validate", "optimal_bst"} => p # LitSeq(p0)
        /\ TablesBuilt => e[1][4] = <<203636, 36369>>
        /\ pc \in {"pre", "ino", "post", "end", "exit"} => cost_dp = <<203636, 36369>>
        /\ TablesBuilt => optimal_bst(LitSeq(p0), LitSeq(q0)).e[1][4] = Lit(224)

C5_Witness == IsExample /\ pc = "pre" /\ cost_dp = <<203636, 36369>>

\* C5 as stated: the example's inputs sum to 1.0 and e[1][4] is 1.34 to two
\* decimals (134 hundredths on the literal inputs).
C5_ExampleCostIs134 ==
    (IsExample /\ TablesBuilt) =>
        /\ SumInt(p0) + SumInt(q0) = 100
        /\ ~Less(e[1][4], <<133500, 0>>) /\ Less(e[1][4], <<134500, 0>>)
        /\ optimal_bst(LitSeq(p0), LitSeq(q0)).e[1][4] = Lit(134)

\* C6: every filled interval, empty or not, has w[i][j] equal to the sum of p
\* over the keys i..j plus the sum of q over the gaps i-1..j.
C6_WeightIsSum ==
    \A c \in filled :
        w[c[1]][c[2]] = Add(SumNum(SubSeq(p, c[1], c[2])), SumNum(SubSeq(q, c[1], c[2] + 1)))

C6_Witness ==
    /\ pc = "report"
    /\ Len(p) = 3
    /\ \A k \in 1..3 : p[k] # Zero
    /\ w[1][3] = Add(SumNum(p), SumNum(q))
    /\ w[2][1] = q[2]

\* C7: every filled non-empty interval has e[i][j] >= w[i][j].
C7_CostAtLeastWeight ==
    \A c \in filled : c[1] <= c[2] => ~Less(e[c[1]][c[2]], w[c[1]][c[2]])

C7_Witness ==
    /\ pc = "report"
    /\ Len(p) = 3
    /\ Less(Zero, w[1][1])
    /\ Less(w[1][3], e[1][3])

\* C8 as stated: the root table main builds after rescaling non-negative inputs
\* of positive total is, entry by entry, the root table of the inputs as given.
C8_RescalingKeepsRoots ==
    (/\ pc = "report"
     /\ \A k \in 1..Len(p0) : p0[k] >= 0
     /\ \A k \in 1..Len(q0) : q0[k] >= 0) =>
        \A c \in NonEmptyIntervals(Len(p)) :
            root[c[1]][c[2]] = optimal_bst(LitSeq(p0), LitSeq(q0)).root[c[1]][c[2]]

\* ---- what the validation has to have established before the DP runs ----
ShapeOk == Len(q) = Len(p) + 1

NonNegative == (\A k \in 1..Len(p) : ~IsNeg(p[k])) /\ (\A k \in 1..Len(q) : ~IsNeg(q[k]))

SumOk ==
    LET s == Add(SumNum(p), SumNum(q))
    IN  ~Less(Add(One, <<0, SumTol>>), s) /\ ~Less(s, Sub(One, <<0, SumTol>>))

NothingComputed ==
    /\ e = NoTable /\ w = NoTable /\ root = NoTable /\ filled = {}
    /\ cost_dp = Zero /\ roots_out = <<>>
    /\ pre = <<>> /\ ino = <<>> /\ post = <<>>

\* C9: a run reaches optimal_bst only with the shape, sign and sum checks passed
\* and the tables only with len(keys) = len(p) as well; once an error is raised
\* no table entry, report or traversal exists or is ever produced, and the run
\* ends with the message on the error stream and exit status 1.
C9_ErrorsBeforeDP ==
    /\ (pc \in {"optimal_bst", "base", "fill"} \/ TablesBuilt) =>
            (err = "" /\ ShapeOk /\ NonNegative /\ SumOk)
    /\ (pc \in {"base", "fill"} \/ TablesBuilt) => Len(keys) = Len(p)
    /\ err # "" => (pc \in {"raised", "exit"} /\ NothingComputed)
    /\ (pc = "exit" /\ err # "") => (stderr = err /\ exitcode = 1)
    /\ (pc = "exit" /\ err = "") => (stderr = "" /\ exitcode = 0)
    /\ pc # "exit" => (stderr = "" /\ exitcode = -1)

C9_Witness ==
    /\ pc = "exit"
    /\ err = "keys_len"
    /\ stderr = "keys_len" /\ exitcode = 1
    /\ ShapeOk /\ NonNegative /\ SumOk
    /\ NothingComputed

\* ---- the order in which the table entries are written and read ----
IntervalLen(c) == c[2] - c[1] + 1

ReadsFilled ==
    pc = "fill" =>
        LET j == i + L - 1
        IN  /\ 1 <= i /\ j <= Len(p)
            /\ <<i, j>> \notin filled
            /\ <<i, j - 1>> \in filled
            /\ \A r \in i..j :
                  /\ <<i, r - 1>> \in filled /\ IntervalLen(<<i, r - 1>>) < L
                  /\ <<r + 1, j>> \in filled /\ IntervalLen(<<r + 1, j>>) < L
            /\ \A c \in filled : IntervalLen(c) <= L

WriteOnce ==
    /\ filled \subseteq filled'
    /\ \A c \in filled :
          /\ e'[c[1]][c[2]] = e[c[1]][c[2]]
          /\ w'[c[1]][c[2]] = w[c[1]][c[2]]
          /\ c[1] <= c[2] => root'[c[1]][c[2]] = root[c[1]][c[2]]
    /\ pc \in {"report", "pre", "ino", "post", "end", "exit"} => UNCHANGED <<e, w, root>>

\* C10: when the interval [i, j] of length L is about to be filled, every entry
\* its candidates read belongs to an already filled interval shorter than L, and
\* no longer interval has been filled; a filled entry of e, w or root is never
\* written again, and nothing is written once the fill is over.
C10_BottomUpWriteOnce == []ReadsFilled /\ [][WriteOnce]_vars

C10_Witness ==
    /\ pc = "fill"
    /\ L = 3 /\ i = 1
    /\ Cardinality(filled) = 9
    /\ <<2, 3>> \in filled

====
